---- MODULE Spec2Model ----
(***************************************************************************)
(* Thymed: the punch state machine of a ChargeCode and the read-modify-    *)
(* write protocol against the two JSON stores (the registry _CHARGES and   *)
(* the ledger _DATA), modelled from src/src/thymed/__init__.py.            *)
(*                                                                         *)
(* A datetime is an integer count of ticks, a tick being the half second   *)
(* the clock is read in (the microsecond field of a datetime is zero or a  *)
(* half second, so that a count of twenty-eight days fits in 32 bits).  A  *)
(* JSON document is a                                                      *)
(* function from string keys to values (the order of the keys is not       *)
(* modelled); a file is a record [kind, doc], kind "empty" for a file of   *)
(* length zero (json.load raises JSONDecodeError), "map" for a file        *)
(* holding a JSON object, "garbage" for a file that is not empty and is    *)
(* not JSON (json.load raises JSONDecodeError) and "absent" for a path     *)
(* with no file (open raises FileNotFoundError).                           *)
(***************************************************************************)
EXTENDS Integers, Sequences, FiniteSets, TLC

VARIABLES
    registry,   \* the file _CHARGES
    ledger,     \* the file _DATA
    objs,       \* the ChargeCode objects in memory: reference -> object
    now,        \* what dt.datetime.now() returned last
    punches,    \* how many times punch() has run
    born,       \* history: reference -> whether the object was constructed with
                \*          no intervals, and how many times it was punched since
    saved,      \* history: id -> the times that write_json last persisted for it
    last,       \* history: the last operation run
    inflight,   \* reference -> the document (final_data) that a write_json
                \*              which has read the ledger is about to write
    ran,        \* history: id -> how many punch commands found the code since
                \*          the ledger last had no entry for the id
    tui         \* the TUI: the applet mounted, what its Statblock shows, the
                \*          delta and the code of Reporting, the place in PERIODS

vars == <<registry, ledger, objs, now, punches, born, saved, last, inflight, ran, tui>>

----------------------------------------------------------------------------
(* Bounds of the model *)

MaxPunches == 3
MaxClock == 1

(* Inputs *)

Ids == {1, 2}
\* the references the calling program holds ChargeCode objects by
Refs == {"a", "b"}
Metas == {<<"One", "Tester 1">>, <<"Two", "Tester 2">>}

\* the resolution of a datetime: ticks in a second
TicksPerSec == 2
ClockStep == TicksPerSec \div 2
\* the readings of the clock: whole seconds and half seconds
Instants == {n * ClockStep : n \in 0..MaxClock}
\* the times a caller may hand to the constructor instead of the default
GivenTimes == {<< <<0>> >>, << <<0, ClockStep>> >>}

----------------------------------------------------------------------------
(* JSON documents and files *)

NoDoc == [k \in {} |-> 0]
EmptyFile == [kind |-> "empty", doc |-> NoDoc]
MapFile(d) == [kind |-> "map", doc |-> d]
GarbageFile == [kind |-> "garbage", doc |-> NoDoc]
AbsentFile == [kind |-> "absent", doc |-> NoDoc]

Put(d, k, v) == [x \in (DOMAIN d) \cup {k} |-> IF x = k THEN v ELSE d[x]]
Pop(d, k) == [x \in (DOMAIN d) \ {k} |-> d[x]]

\* open(path): the file, or FileNotFoundError
Exists(file) == file.kind # "absent"

\* json.load: a mapping, or JSONDecodeError
Parses(file) == file.kind = "map"

\* str(id), f"{id}" and the key json.dumps writes for an int key
Str(i) == ToString(i)
\* int(key)
int(k) == CHOOSE i \in Ids : ToString(i) = k
Keys == {Str(i) : i \in Ids}

\* the document of the file has an entry under the key of id
HasEntry(file, id) == Parses(file) /\ Str(id) \in DOMAIN file.doc

----------------------------------------------------------------------------
(* datetime <-> ISO-8601 text: the fraction is written only when the
   microsecond field is not zero; the text is <<seconds>> or
   <<seconds, fraction>> *)

\* isoformat(timespec="seconds"): the fraction is never written
isoformat_seconds(t) == <<t \div TicksPerSec>>

isoformat(t) ==
    IF t % TicksPerSec = 0 THEN <<t \div TicksPerSec>>
                        ELSE <<t \div TicksPerSec, t % TicksPerSec>>

fromisoformat(s) == s[1] * TicksPerSec + (IF Len(s) = 2 THEN s[2] ELSE 0)

\* write_json, lines 156-161: every entry as a tuple of isoformat strings
TimesToJson(times) ==
    [n \in 1..Len(times) |-> [m \in 1..Len(times[n]) |-> isoformat(times[n][m])]]

\* __post_init__, lines 118-122: every stored entry as a tuple of datetimes
TimesFromJson(entry) ==
    [n \in 1..Len(entry) |-> [m \in 1..Len(entry[n]) |-> fromisoformat(entry[n][m])]]

----------------------------------------------------------------------------
(* ChargeCode *)

None == "None"
True == "True"
False == "False"

\* the test of line 138 against the length of a closed interval
is_active_swapped(times) ==
    IF Len(times) = 0 THEN None
    ELSE IF Len(times[Len(times)]) = 2 THEN True ELSE False

\* no intervals reported as inactive instead of None
is_active_bool(times) ==
    IF Len(times) = 0 THEN False
    ELSE IF Len(times[Len(times)]) = 1 THEN True ELSE False

is_active(times) ==
    IF Len(times) = 0 THEN None
    ELSE IF Len(times[Len(times)]) = 1 THEN True ELSE False

\* Python truthiness of what is_active returns: None and False are falsy
Truthy(v) == v = True

\* punch() that opens an interval whether or not one is open
punch_append(times, t) == Append(times, <<t>>)

\* punch() that closes the open interval with the current time as its start too
punch_restamp(times, t) ==
    IF Truthy(is_active(times))
    THEN [times EXCEPT ![Len(times)] = <<t, t>>]
    ELSE Append(times, <<t>>)

\* the times after punch() at time t
punch(times, t) ==
    IF Truthy(is_active(times))
    THEN [times EXCEPT ![Len(times)] = <<times[Len(times)][1], t>>]
    ELSE Append(times, <<t>>)

\* the times after __post_init__, given the times the constructor received
post_init(id, given) ==
    IF Parses(ledger) /\ id \in {int(k) : k \in DOMAIN ledger.doc}
    THEN given \o TimesFromJson(ledger.doc[Str(id)])
    ELSE given

\* write_json that keeps nothing of the document it read
write_json_alone(code) == Put(NoDoc, Str(code.id), TimesToJson(code.times))

\* write_json that appends the times to the entry it read
write_json_append(code) ==
    IF HasEntry(ledger, code.id)
    THEN Put(ledger.doc, Str(code.id),
             ledger.doc[Str(code.id)] \o TimesToJson(code.times))
    ELSE IF Parses(ledger)
    THEN Put(ledger.doc, Str(code.id), TimesToJson(code.times))
    ELSE Put(NoDoc, Str(code.id), TimesToJson(code.times))

\* the document write_json serialises
write_json(code) ==
    IF Parses(ledger)
    THEN Put(ledger.doc, Str(code.id), TimesToJson(code.times))
    ELSE Put(NoDoc, Str(code.id), TimesToJson(code.times))

\* the __dict__ of a code written with its times left in
ClassDictTimes(code) ==
    [name |-> code.name, description |-> code.description, id |-> code.id,
     times |-> code.times, type |-> "ChargeCode"]

\* the registry entry of a code: its __dict__ without times, with the type tag
ClassDict(code) ==
    [name |-> code.name, description |-> code.description, id |-> code.id,
     type |-> "ChargeCode"]

\* write_class that overwrites the entry of an id it finds
write_class_overwrite(code) ==
    Put(IF Parses(registry) THEN registry.doc ELSE NoDoc,
        Str(code.id), ClassDict(code))

\* the document write_class serialises
write_class(code) ==
    LET codes == IF Parses(registry) THEN registry.doc ELSE NoDoc
    IN  IF Str(code.id) \notin DOMAIN codes
        THEN Put(codes, Str(code.id), ClassDict(code))
        ELSE codes

\* object_decoder that leaves the times of the code empty
object_decoder_bare(obj) ==
    [name |-> obj.name, description |-> obj.description, id |-> obj.id,
     times |-> <<>>]

\* object_decoder on a registry entry: a ChargeCode hydrated from the ledger
object_decoder(obj) ==
    [name |-> obj.name, description |-> obj.description, id |-> obj.id,
     times |-> post_init(obj.id, <<>>)]

\* delete_charge that writes each __dict__ back without the type tag
delete_codes_untagged(key) ==
    LET codes == [k \in DOMAIN registry.doc |-> object_decoder(registry.doc[k])]
    IN  [k \in DOMAIN Pop(codes, key) |->
            [name |-> codes[k].name, description |-> codes[k].description,
             id |-> codes[k].id]]

\* the registry document delete_charge writes back, lines 375-382: the codes
\* decoded by object_decoder, without key, each as its __dict__ without times
delete_codes(key) ==
    LET codes == [k \in DOMAIN registry.doc |-> object_decoder(registry.doc[k])]
    IN  [k \in DOMAIN Pop(codes, key) |-> ClassDict(codes[k])]

----------------------------------------------------------------------------
\* the record of an operation: its name, the reference it ran on, the key it
\* was given, whether the store held the id's entry before it, whether it
\* repeats the operation before it, whether it raised
\* what an operation was given, returned or raised: the exception ("" for
\* none), the ChargeCode returned (a sequence of none or one), the rows
\* returned, whether a store was opened, and the kind of the file it read
Ret(exc, code, rows, opened, was) ==
    [exc |-> exc, code |-> code, rows |-> rows, opened |-> opened, was |-> was]
\* an argument: an int or a str, and for a report the two ends of the range
Arg(type, i, k, start, end) ==
    [type |-> type, int |-> i, str |-> k, start |-> start, end |-> end]
NoArg == Arg("", 0, "", 0, 0)
IntArg(i) == Arg("int", i, "", 0, 0)
StrArg(k) == Arg("str", 0, k, 0, 0)

OpR(name, o, key, had, again, arg, ret) ==
    [op |-> name, o |-> o, key |-> key, had |-> had, again |-> again,
     raised |-> ret.exc # "", arg |-> arg, ret |-> ret]

Op(name, o, key, had, again, raised) ==
    [op |-> name, o |-> o, key |-> key, had |-> had, again |-> again,
     raised |-> raised, arg |-> NoArg,
     ret |-> Ret(IF raised THEN "Exception" ELSE "", <<>>, <<>>, FALSE, "")]

Init ==
    /\ registry = EmptyFile
    /\ ledger = EmptyFile
    /\ objs = NoDoc
    /\ now = 0
    /\ punches = 0
    /\ born = NoDoc
    /\ saved = NoDoc
    /\ last = Op("init", "", "", FALSE, FALSE, FALSE)
    /\ inflight = NoDoc
    /\ ran = [i \in Ids |-> 0]
    /\ tui = [applet |-> "none", rows |-> {}, period |-> "", days |-> 0,
              delta |-> 0, code |-> 0, next |-> 1]

\* a constructor that lets the JSONDecodeError of line 113 escape
ConstructStrict(r, name, description, id, given) ==
    /\ UNCHANGED <<inflight, ran, tui>>
    /\ r \notin DOMAIN objs
    /\ IF Parses(ledger)
       THEN /\ objs' = Put(objs, r, [name |-> name, description |-> description,
                                     id |-> id, times |-> post_init(id, given)])
            /\ born' = Put(born, r, [empty |-> post_init(id, given) = <<>>, k |-> 0])
            /\ last' = OpR("construct", r, "", HasEntry(ledger, id), FALSE, NoArg,
                           Ret("", <<>>, <<>>, TRUE, ledger.kind))
       ELSE /\ UNCHANGED <<objs, born>>
            /\ last' = OpR("construct", r, "", FALSE, FALSE, NoArg,
                           Ret("JSONDecodeError", <<>>, <<>>, TRUE, ledger.kind))
    /\ UNCHANGED <<registry, ledger, now, punches, saved>>

\* r = ChargeCode(name, description, id, times), r a reference not yet bound
Construct(r, name, description, id, given) ==
    /\ UNCHANGED <<inflight, ran, tui>>
    /\ r \notin DOMAIN objs
    /\ IF Exists(ledger)
       THEN /\ objs' = Put(objs, r, [name |-> name, description |-> description,
                                     id |-> id, times |-> post_init(id, given)])
            /\ born' = Put(born, r, [empty |-> post_init(id, given) = <<>>, k |-> 0])
            /\ last' = OpR("construct", r, "", HasEntry(ledger, id), FALSE, NoArg,
                           Ret("", <<>>, <<>>, TRUE, ledger.kind))
       ELSE \* line 110 raises FileNotFoundError, line 128 raises it again
            /\ UNCHANGED <<objs, born>>
            /\ last' = OpR("construct", r, "", FALSE, FALSE, NoArg,
                           Ret("FileNotFoundError", <<>>, <<>>, TRUE, ledger.kind))
    /\ UNCHANGED <<registry, ledger, now, punches, saved>>

\* punch() that also persists the times
PunchSaving(o, t) ==
    /\ UNCHANGED <<inflight, ran, tui>>
    /\ o \in DOMAIN objs
    /\ punches < MaxPunches
    /\ t >= now
    /\ objs' = [objs EXCEPT ![o].times = punch(@, t)]
    /\ now' = t
    /\ punches' = punches + 1
    /\ born' = [born EXCEPT ![o].k = @ + 1]
    /\ last' = Op("punch", o, "", FALSE, FALSE, FALSE)
    /\ ledger' = MapFile(write_json(objs'[o]))
    /\ UNCHANGED <<registry, saved>>

\* punch() with a clock that may step back
PunchBackwards(o, t) ==
    /\ UNCHANGED <<inflight, ran, tui>>
    /\ o \in DOMAIN objs
    /\ punches < MaxPunches
    /\ objs' = [objs EXCEPT ![o].times = punch(@, t)]
    /\ now' = t
    /\ punches' = punches + 1
    /\ born' = [born EXCEPT ![o].k = @ + 1]
    /\ last' = Op("punch", o, "", FALSE, FALSE, FALSE)
    /\ UNCHANGED <<registry, ledger, saved>>

\* objs[o].punch(), dt.datetime.now() returning t
Punch(o, t) ==
    /\ UNCHANGED <<inflight, ran, tui>>
    /\ o \in DOMAIN objs
    /\ punches < MaxPunches
    /\ t >= now
    /\ objs' = [objs EXCEPT ![o].times = punch(@, t)]
    /\ now' = t
    /\ punches' = punches + 1
    /\ born' = [born EXCEPT ![o].k = @ + 1]
    /\ last' = Op("punch", o, "", FALSE, FALSE, FALSE)
    /\ UNCHANGED <<registry, ledger, saved>>

\* write_json that lets the JSONDecodeError of line 167 escape
WriteJsonStrict(o) ==
    /\ UNCHANGED <<inflight, ran, tui>>
    /\ o \in DOMAIN objs
    /\ IF Parses(ledger)
       THEN /\ ledger' = MapFile(write_json(objs[o]))
            /\ saved' = Put(saved, objs[o].id, objs[o].times)
            /\ last' = OpR("write_json", o, "", HasEntry(ledger, objs[o].id),
                           last.op = "write_json" /\ last.o = o, NoArg,
                           Ret("", <<>>, <<>>, TRUE, ledger.kind))
       ELSE /\ UNCHANGED <<ledger, saved>>
            /\ last' = OpR("write_json", o, "", FALSE, FALSE, NoArg,
                           Ret("JSONDecodeError", <<>>, <<>>, TRUE, ledger.kind))
    /\ UNCHANGED <<registry, objs, now, punches, born>>

\* objs[o].write_json()
WriteJson(o) ==
    /\ UNCHANGED <<inflight, ran, tui>>
    /\ o \in DOMAIN objs
    /\ IF Exists(ledger)
       THEN /\ ledger' = MapFile(write_json(objs[o]))
            /\ saved' = IF Parses(ledger) THEN Put(saved, objs[o].id, objs[o].times)
                                          ELSE Put(NoDoc, objs[o].id, objs[o].times)
            /\ last' = OpR("write_json", o, "", HasEntry(ledger, objs[o].id),
                           last.op = "write_json" /\ last.o = o, NoArg,
                           Ret("", <<>>, <<>>, TRUE, ledger.kind))
       ELSE \* line 165 raises FileNotFoundError, which line 175 does not catch
            /\ UNCHANGED <<ledger, saved>>
            /\ last' = OpR("write_json", o, "", FALSE, FALSE, NoArg,
                           Ret("FileNotFoundError", <<>>, <<>>, TRUE, ledger.kind))
    /\ UNCHANGED <<registry, objs, now, punches, born>>

\* write_class() that writes the times of the code to the ledger as well
WriteClassSaving(o) ==
    /\ UNCHANGED <<inflight, ran, tui>>
    /\ o \in DOMAIN objs
    /\ registry' = MapFile(write_class(objs[o]))
    /\ ledger' = MapFile(write_json(objs[o]))
    /\ last' = Op("write_class", o, "", HasEntry(registry, objs[o].id), FALSE, FALSE)
    /\ UNCHANGED <<objs, now, punches, born, saved>>

\* objs[o].write_class()
WriteClass(o) ==
    /\ UNCHANGED <<inflight, ran, tui>>
    /\ o \in DOMAIN objs
    /\ registry' = MapFile(write_class(objs[o]))
    /\ last' = Op("write_class", o, "", HasEntry(registry, objs[o].id), FALSE, FALSE)
    /\ UNCHANGED <<ledger, objs, now, punches, born, saved>>

\* delete_charge with pop(id, None): a missing key is not an error
DeleteChargeQuiet(key) ==
    /\ UNCHANGED <<objs, now, punches, born, inflight, tui>>
    /\ IF ~Parses(registry)
       THEN /\ UNCHANGED <<registry, ledger, saved, ran>>
            /\ last' = Op("delete_charge", "", key, FALSE, FALSE, TRUE)
       ELSE /\ registry' = MapFile(delete_codes(key))
            /\ IF ~Parses(ledger)
               THEN /\ UNCHANGED <<ledger, saved, ran>>
                    /\ last' = Op("delete_charge", "", key, key \in DOMAIN registry.doc,
                                  FALSE, TRUE)
               ELSE /\ ledger' = MapFile(Pop(ledger.doc, key))
                    /\ saved' = Pop(saved, int(key))
                    /\ ran' = [ran EXCEPT ![int(key)] = 0]
                    /\ last' = Op("delete_charge", "", key, key \in DOMAIN registry.doc,
                                  FALSE, FALSE)

\* delete_charge(key): each file is opened for writing, and so truncated,
\* before the pop that may raise KeyError
DeleteCharge(key) ==
    /\ UNCHANGED <<objs, now, punches, born, inflight, tui>>
    /\ IF ~Parses(registry)
       THEN \* line 371 raises JSONDecodeError
            /\ UNCHANGED <<registry, ledger, saved, ran>>
            /\ last' = Op("delete_charge", "", key, FALSE, FALSE, TRUE)
       ELSE IF key \notin DOMAIN registry.doc
       THEN \* line 375 raises KeyError, the registry is left truncated
            /\ registry' = EmptyFile
            /\ UNCHANGED <<ledger, saved, ran>>
            /\ last' = Op("delete_charge", "", key, FALSE, FALSE, TRUE)
       ELSE /\ registry' = MapFile(delete_codes(key))
            /\ IF ~Parses(ledger)
               THEN \* line 390 raises JSONDecodeError
                    /\ UNCHANGED <<ledger, saved, ran>>
                    /\ last' = Op("delete_charge", "", key, TRUE, FALSE, TRUE)
               ELSE IF key \notin DOMAIN ledger.doc
               THEN \* line 394 raises KeyError, the ledger is left truncated
                    /\ ledger' = EmptyFile
                    /\ saved' = NoDoc
                    /\ ran' = [i \in Ids |-> 0]
                    /\ last' = Op("delete_charge", "", key, TRUE, FALSE, TRUE)
               ELSE /\ ledger' = MapFile(Pop(ledger.doc, key))
                    /\ saved' = Pop(saved, int(key))
                    /\ ran' = [ran EXCEPT ![int(key)] = 0]
                    /\ last' = Op("delete_charge", "", key, TRUE, FALSE, FALSE)

Next ==
    \/ \E r \in Refs, m \in Metas, i \in Ids : Construct(r, m[1], m[2], i, <<>>)
    \/ \E o \in Refs, t \in Instants : Punch(o, t)
    \/ \E o \in Refs : WriteJson(o)
    \/ \E o \in Refs : WriteClass(o)
    \/ \E key \in Keys : DeleteCharge(key)

Spec == Init /\ [][Next]_vars

\* Callers that hand times to the constructor, and the operations on the
\* ledger (what is reachable here is reachable in the program)
NextGiven ==
    \/ \E r \in Refs, m \in Metas, i \in Ids, g \in GivenTimes \cup {<<>>} :
          Construct(r, m[1], m[2], i, g)
    \/ \E o \in Refs, t \in Instants : Punch(o, t)
    \/ \E o \in Refs : WriteJson(o)

SpecGiven == Init /\ [][NextGiven]_vars

----------------------------------------------------------------------------
(* get_code and TimeCard *)

\* json.load(f, object_hook=object_decoder) on the registry: every entry as a
\* ChargeCode, no entries when the file does not parse
load_codes ==
    IF Parses(registry)
    THEN [k \in DOMAIN registry.doc |-> object_decoder(registry.doc[k])]
    ELSE NoDoc

\* get_code without the assertion of line 321
get_code_unchecked(arg) ==
    LET key == IF arg.type = "int" THEN Str(arg.int) ELSE arg.str
    IN  IF key \in DOMAIN load_codes
        THEN Ret("", <<load_codes[key]>>, <<>>, TRUE, registry.kind)
        ELSE Ret("", <<>>, <<>>, TRUE, registry.kind)

\* get_code without the except KeyError of line 342
get_code_raising(arg) ==
    IF arg.type # "int"
    THEN Ret("AssertionError", <<>>, <<>>, FALSE, "")
    ELSE IF Str(arg.int) \in DOMAIN load_codes
    THEN Ret("", <<load_codes[Str(arg.int)]>>, <<>>, TRUE, registry.kind)
    ELSE Ret("KeyError", <<>>, <<>>, TRUE, registry.kind)

\* what get_code(arg) returns or raises
get_code(arg) ==
    IF arg.type # "int"
    THEN Ret("AssertionError", <<>>, <<>>, FALSE, "")
    ELSE IF Parses(registry) /\ DOMAIN registry.doc # {} /\ ~Exists(ledger)
    THEN \* object_decoder constructs a ChargeCode, line 110 raises
         Ret("FileNotFoundError", <<>>, <<>>, TRUE, registry.kind)
    ELSE IF Str(arg.int) \in DOMAIN load_codes
    THEN Ret("", <<load_codes[Str(arg.int)]>>, <<>>, TRUE, registry.kind)
    ELSE Ret("", <<>>, <<>>, TRUE, registry.kind)

\* pandas: the missing value of a datetime column
NaT == -1

Max(S) == CHOOSE x \in S : \A y \in S : y <= x

\* pd.DataFrame that pads every short tuple, whatever the longest one is
DataFrame_padding(times) ==
    [exc |-> "",
     rows |-> [n \in 1..Len(times) |->
                 [clock_in |-> times[n][1],
                  clock_out |-> IF Len(times[n]) = 2 THEN times[n][2] ELSE NaT]]]

\* pd.DataFrame(times, columns=["clock_in", "clock_out"]): a short tuple is
\* padded to the longest one; the rows, or ValueError when the longest tuple
\* has not two elements
DataFrame(times) ==
    IF times # <<>> /\ Max({Len(times[n]) : n \in 1..Len(times)}) # 2
    THEN [exc |-> "ValueError", rows |-> <<>>]
    ELSE [exc |-> "",
          rows |-> [n \in 1..Len(times) |->
                      [clock_in |-> times[n][1],
                       clock_out |-> IF Len(times[n]) = 2 THEN times[n][2] ELSE NaT]]]

TicksPerMinute == 60 * TicksPerSec
TicksPerHour == 60 * TicksPerMinute
TicksPerDay == 24 * TicksPerHour

\* Timedelta.components of a duration that is not negative: the days, and the
\* hours and minutes left over within the day
components(d) ==
    [days |-> d \div TicksPerDay,
     hours |-> (d \div TicksPerHour) % 24,
     minutes |-> (d \div TicksPerMinute) % 60]

\* ten times round(minutes / 60, 1) for minutes = 0..59, as Python rounds the
\* float quotient (9, 15, 21, 51 and 57 minutes round down)
RoundTenths ==
    << 0, 0, 0, 1, 1, 1, 1, 1, 1, 1, 2, 2, 2, 2, 2, 2, 3, 3, 3, 3,
       3, 3, 4, 4, 4, 4, 4, 5, 5, 5, 5, 5, 5, 6, 6, 6, 6, 6, 6, 7,
       7, 7, 7, 7, 7, 8, 8, 8, 8, 8, 8, 8, 9, 9, 9, 9, 9, 9, 10, 10 >>

\* line 257-259: the hours column, in tenths of an hour
hours(d) == components(d).hours * 10 + RoundTenths[components(d).minutes + 1]

\* lines 256-259: a row with its duration and hours columns
Derived(row) ==
    [clock_in |-> row.clock_in, clock_out |-> row.clock_out,
     duration |-> row.clock_out - row.clock_in,
     hours |-> hours(row.clock_out - row.clock_in)]

\* what general_report(start, end) returns or raises on a TimeCard whose code
\* is code (a sequence of none or one ChargeCode)
general_report(code, start, end) ==
    IF code = <<>>
    THEN \* line 248: None has no attribute times
         Ret("AttributeError", <<>>, <<>>, TRUE, "")
    ELSE LET df == DataFrame(code[1].times)
             InRange(row) == row.clock_in <= end /\ row.clock_in >= start
         IN  IF df.exc # ""
             THEN \* lines 249-254
                  Ret("ThymedError", <<>>, <<>>, TRUE, "")
             ELSE IF df.rows = <<>>
             THEN \* line 255: a frame with no rows has object columns, which
                  \* have no .dt accessor
                  Ret("AttributeError", <<>>, <<>>, TRUE, "")
             ELSE IF \E n \in 1..Len(df.rows) : df.rows[n].clock_out = NaT
             THEN \* line 258: the duration is NaT, which has no components
                  Ret("AttributeError", <<>>, <<>>, TRUE, "")
             ELSE Ret("", <<>>,
                      SelectSeq([n \in 1..Len(df.rows) |-> Derived(df.rows[n])], InRange),
                      TRUE, "")

\* get_code(arg)
GetCode(arg) ==
    /\ UNCHANGED <<inflight, ran, tui>>
    /\ last' = OpR("get_code", "", "", arg.type = "int" /\ HasEntry(registry, arg.int),
                   FALSE, arg, get_code(arg))
    /\ UNCHANGED <<registry, ledger, objs, now, punches, born, saved>>

\* TimeCard(arg)
NewTimeCard(arg) ==
    /\ UNCHANGED <<inflight, ran, tui>>
    /\ last' = OpR("TimeCard", "", "", arg.type = "int" /\ HasEntry(registry, arg.int),
                   FALSE, arg, get_code(arg))
    /\ UNCHANGED <<registry, ledger, objs, now, punches, born, saved>>

\* TimeCard(id).general_report(start, end)
Report(id, start, end) ==
    /\ UNCHANGED <<inflight, ran, tui>>
    /\ LET card == get_code(IntArg(id))
       IN  last' = OpR("general_report", "", "", HasEntry(registry, id), FALSE,
                       Arg("int", id, "", start, end),
                       IF card.exc # "" THEN card
                       ELSE general_report(card.code, start, end))
    /\ UNCHANGED <<registry, ledger, objs, now, punches, born, saved>>

\* the reports over a fixed window and the days of the window
Periods == {"weekly_report", "pay_period_report", "monthly_report"}

\* every window two weeks long
delta_fortnight(period) == 14 * TicksPerDay

\* timedelta(days=7), timedelta(days=14), timedelta(weeks=4)
delta(period) ==
    CASE period = "weekly_report" -> 7 * TicksPerDay
      [] period = "pay_period_report" -> 14 * TicksPerDay
      [] period = "monthly_report" -> 4 * 7 * TicksPerDay

\* TimeCard(id).weekly_report(), .pay_period_report() or .monthly_report(),
\* dt.datetime.today() returning t
PeriodReport(period, id, t) ==
    /\ t >= now
    /\ now' = t
    /\ LET card == get_code(IntArg(id))
       IN  last' = OpR(period, "", "", HasEntry(registry, id), FALSE,
                       Arg("int", id, "", t - delta(period), t),
                       IF card.exc # "" THEN card
                       ELSE general_report(card.code, t - delta(period), t))
    /\ UNCHANGED <<registry, ledger, objs, punches, born, saved, inflight, ran, tui>>

\* ChargeCode objects written to the stores and looked up
NextLookup ==
    \/ \E r \in Refs, m \in Metas, i \in Ids : Construct(r, m[1], m[2], i, <<>>)
    \/ \E o \in Refs, t \in Instants : Punch(o, t)
    \/ \E o \in Refs : WriteJson(o)
    \/ \E o \in Refs : WriteClass(o)
    \/ \E i \in Ids : GetCode(IntArg(i))
    \/ \E k \in Keys : GetCode(StrArg(k))
    \/ \E i \in Ids : NewTimeCard(IntArg(i))

SpecLookup == Init /\ [][NextLookup]_vars

\* ChargeCode objects written to the stores and reported on
NextReport ==
    \/ \E r \in Refs, m \in Metas, i \in Ids : Construct(r, m[1], m[2], i, <<>>)
    \/ \E o \in Refs, t \in Instants : Punch(o, t)
    \/ \E o \in Refs : WriteJson(o)
    \/ \E o \in Refs : WriteClass(o)
    \/ \E i \in Ids, start \in Instants, end \in Instants : Report(i, start, end)

SpecReport == Init /\ [][NextReport]_vars

----------------------------------------------------------------------------
(* The commands of the CLI and the TUI *)

\* thymed create, and the TUI add_code: ChargeCode(name, description, id)
\* and write_class()
CreateCommand(name, description, id) ==
    /\ IF Exists(ledger)
       THEN /\ registry' = MapFile(write_class([name |-> name, description |-> description,
                                                id |-> id, times |-> post_init(id, <<>>)]))
            /\ last' = OpR("create", "", Str(id), HasEntry(registry, id), FALSE,
                           IntArg(id), Ret("", <<>>, <<>>, TRUE, registry.kind))
       ELSE \* the constructor raises FileNotFoundError
            /\ UNCHANGED registry
            /\ last' = OpR("create", "", Str(id), HasEntry(registry, id), FALSE,
                           IntArg(id), Ret("FileNotFoundError", <<>>, <<>>, TRUE, ledger.kind))
    /\ UNCHANGED <<ledger, objs, now, punches, born, saved, inflight, ran, tui>>

\* a punch command that does not write the times
PunchCommandUnsaved(id, t) ==
    LET card == get_code(IntArg(id))
    IN  IF card.exc = "" /\ card.code # <<>>
        THEN /\ punches < MaxPunches
             /\ t >= now
             /\ now' = t
             /\ punches' = punches + 1
             /\ registry' = MapFile(write_class(card.code[1]))
             /\ ran' = [ran EXCEPT ![id] = IF HasEntry(ledger, id) THEN @ + 1 ELSE 1]
             /\ last' = OpR("punch_command", "", Str(id), TRUE, FALSE, IntArg(id),
                            Ret("", <<>>, <<>>, TRUE, registry.kind))
             /\ UNCHANGED <<ledger, saved, objs, born, inflight, tui>>
        ELSE /\ last' = OpR("punch_command", "", Str(id), FALSE, FALSE, IntArg(id),
                            Ret(card.exc, <<>>, <<>>, TRUE, registry.kind))
             /\ UNCHANGED <<registry, ledger, objs, now, punches, born, saved,
                            inflight, ran, tui>>

\* a punch command that punches a new code when it finds none
PunchCommandBlind(id, t) ==
    LET card == get_code(IntArg(id))
        found == IF card.code # <<>> THEN card.code[1]
                 ELSE [name |-> "", description |-> "", id |-> id,
                       times |-> post_init(id, <<>>)]
        code == [found EXCEPT !.times = punch(@, t)]
    IN  /\ card.exc = ""
        /\ punches < MaxPunches
        /\ t >= now
        /\ now' = t
        /\ punches' = punches + 1
        /\ registry' = MapFile(write_class(code))
        /\ ledger' = MapFile(write_json(code))
        /\ saved' = Put(saved, id, code.times)
        /\ ran' = [ran EXCEPT ![id] = IF HasEntry(ledger, id) THEN @ + 1 ELSE 1]
        /\ last' = OpR("punch_command", "", Str(id), card.code # <<>>, FALSE, IntArg(id),
                       Ret("", <<>>, <<>>, TRUE, registry.kind))
        /\ UNCHANGED <<objs, born, inflight, tui>>

\* thymed punch <id>, and the TUI punch with a numeric id: the code is looked
\* up (get_code, or the same load and lookup in the CLI), then punch() with
\* dt.datetime.now() returning t, write_class() and write_json(); a code
\* that is not found is reported and nothing is written
PunchCommand(id, t) ==
    LET card == get_code(IntArg(id))
    IN  IF card.exc = "" /\ card.code # <<>>
        THEN LET code == [card.code[1] EXCEPT !.times = punch(@, t)]
             IN  /\ punches < MaxPunches
                 /\ t >= now
                 /\ now' = t
                 /\ punches' = punches + 1
                 /\ registry' = MapFile(write_class(code))
                 /\ ledger' = MapFile(write_json(code))
                 /\ saved' = Put(saved, id, code.times)
                 /\ ran' = [ran EXCEPT ![id] = IF HasEntry(ledger, id) THEN @ + 1 ELSE 1]
                 /\ last' = OpR("punch_command", "", Str(id), TRUE, FALSE, IntArg(id),
                                Ret("", <<>>, <<>>, TRUE, registry.kind))
                 /\ UNCHANGED <<objs, born, inflight, tui>>
        ELSE /\ last' = OpR("punch_command", "", Str(id), FALSE, FALSE, IntArg(id),
                            Ret(card.exc, <<>>, <<>>, TRUE, registry.kind))
             /\ UNCHANGED <<registry, ledger, objs, now, punches, born, saved,
                            inflight, ran, tui>>

\* what is left to read of a file whose text f.read() has returned: nothing
Rest(file) == EmptyFile

\* default_code() with default_id the id of the configuration: None for a
\* registry that is empty or "{}"; for any other registry json.load reads
\* the file from where f.read() left it
default_code(default_id) ==
    IF registry.kind = "empty" \/ (Parses(registry) /\ DOMAIN registry.doc = {})
    THEN \* lines 61-71
         Ret("", <<>>, <<>>, TRUE, registry.kind)
    ELSE IF ~Parses(Rest(registry))
    THEN \* line 73 raises JSONDecodeError
         Ret("JSONDecodeError", <<>>, <<>>, TRUE, registry.kind)
    ELSE LET codes == [k \in DOMAIN Rest(registry).doc |->
                         object_decoder(Rest(registry).doc[k])]
         IN  IF Str(default_id) \in DOMAIN codes
             THEN Ret("", <<codes[Str(default_id)]>>, <<>>, TRUE, registry.kind)
             ELSE \* lines 78-95
                  Ret("", <<>>, <<>>, TRUE, registry.kind)

\* thymed punch with no id, the configuration naming default_id: the code
\* default_code() returns is punched with dt.datetime.now() returning t and
\* written; with no code the command says so and ends
DefaultPunchCommand(default_id, t) ==
    LET card == default_code(default_id)
    IN  IF card.exc = "" /\ card.code # <<>>
        THEN LET code == [card.code[1] EXCEPT !.times = punch(@, t)]
             IN  /\ punches < MaxPunches
                 /\ t >= now
                 /\ now' = t
                 /\ punches' = punches + 1
                 /\ registry' = MapFile(write_class(code))
                 /\ ledger' = MapFile(write_json(code))
                 /\ saved' = Put(saved, default_id, code.times)
                 /\ ran' = [ran EXCEPT ![default_id] =
                                         IF HasEntry(ledger, default_id) THEN @ + 1 ELSE 1]
                 /\ last' = OpR("punch_default", "", Str(default_id), TRUE, FALSE,
                                IntArg(default_id), Ret("", <<>>, <<>>, TRUE, registry.kind))
                 /\ UNCHANGED <<objs, born, inflight, tui>>
        ELSE /\ last' = OpR("punch_default", "", Str(default_id), FALSE, FALSE,
                            IntArg(default_id),
                            Ret(card.exc, <<>>, <<>>, TRUE, registry.kind))
             /\ UNCHANGED <<registry, ledger, objs, now, punches, born, saved,
                            inflight, ran, tui>>

\* the commands of the CLI and the remove of the TUI, each run to its end
NextCli ==
    \/ \E m \in Metas, i \in Ids : CreateCommand(m[1], m[2], i)
    \/ \E i \in Ids, t \in Instants : PunchCommand(i, t)
    \/ \E key \in Keys : DeleteCharge(key)
    \/ \E d \in Ids, t \in Instants : DefaultPunchCommand(d, t)

SpecCli == Init /\ [][NextCli]_vars

\* create, punch and remove commands, each run to its end
NextCommands ==
    \/ \E m \in Metas, i \in Ids : CreateCommand(m[1], m[2], i)
    \/ \E i \in Ids, t \in Instants : PunchCommand(i, t)
    \/ \E key \in Keys : DeleteCharge(key)

SpecCommands == Init /\ [][NextCommands]_vars

\* the readings of the clock in the days before a report: midnight, nine
\* hours later, ten days and an hour and a half later, twenty days later
PeriodInstants ==
    {0, 9 * TicksPerHour, 10 * TicksPerDay + TicksPerHour + 30 * TicksPerMinute, 20 * TicksPerDay}

\* commands over days, and the reports of a TimeCard
NextPeriod ==
    \/ \E i \in Ids : CreateCommand("One", "Tester 1", i)
    \/ \E i \in Ids, t \in PeriodInstants : PunchCommand(i, t)
    \/ \E i \in Ids, start \in PeriodInstants, end \in PeriodInstants :
          start <= end /\ Report(i, start, end)
    \/ \E period \in Periods, i \in Ids, t \in PeriodInstants :
          PeriodReport(period, i, t)

SpecPeriod == Init /\ [][NextPeriod]_vars

----------------------------------------------------------------------------
(* Two processes on one ledger file: each reference is the ChargeCode of a
   process of its own, and write_json is two steps, the read of lines 165-174
   and the overwrite of lines 188-191 *)

\* write_json up to line 178: the process of o has read the ledger and built
\* final_data
WriteJsonRead(o) ==
    /\ o \in DOMAIN objs
    /\ o \notin DOMAIN inflight
    /\ Exists(ledger)
    /\ inflight' = Put(inflight, o, write_json(objs[o]))
    /\ last' = OpR("write_json_read", o, "", HasEntry(ledger, objs[o].id), FALSE,
                   NoArg, Ret("", <<>>, <<>>, TRUE, ledger.kind))
    /\ UNCHANGED <<registry, ledger, objs, now, punches, born, saved, ran, tui>>

\* an overwrite that reads the ledger again and merges its entry into it
WriteJsonWriteMerging(o) ==
    /\ o \in DOMAIN inflight
    /\ ledger' = MapFile(write_json(objs[o]))
    /\ inflight' = Pop(inflight, o)
    /\ saved' = Put(saved, objs[o].id, objs[o].times)
    /\ last' = OpR("write_json_write", o, "", HasEntry(ledger, objs[o].id), FALSE,
                   NoArg, Ret("", <<>>, <<>>, TRUE, ledger.kind))
    /\ UNCHANGED <<registry, objs, now, punches, born, ran, tui>>

\* write_json, lines 188-191: the process of o overwrites the ledger with the
\* final_data it built from what it read
WriteJsonWrite(o) ==
    /\ o \in DOMAIN inflight
    /\ ledger' = MapFile(inflight[o])
    /\ inflight' = Pop(inflight, o)
    /\ saved' = Put(saved, objs[o].id, objs[o].times)
    /\ last' = OpR("write_json_write", o, "", HasEntry(ledger, objs[o].id), FALSE,
                   NoArg, Ret("", <<>>, <<>>, TRUE, ledger.kind))
    /\ UNCHANGED <<registry, objs, now, punches, born, ran, tui>>

\* two processes, each constructing and punching its code (not while it is
\* inside write_json) and writing it in two steps
NextRace ==
    \/ \E r \in Refs, m \in Metas, i \in Ids : Construct(r, m[1], m[2], i, <<>>)
    \/ \E o \in Refs, t \in Instants : o \notin DOMAIN inflight /\ Punch(o, t)
    \/ \E o \in Refs : WriteJsonRead(o)
    \/ \E o \in Refs : WriteJsonWrite(o)

SpecRace == Init /\ [][NextRace]_vars

----------------------------------------------------------------------------
(* The Reporting applet of the TUI.  tui.period and tui.days are the two
   reactives of the Statblock (the days of its delta), tui.delta the days of
   Reporting.delta, tui.code Reporting.code, tui.rows the ids of the table
   filled when the applet was composed, tui.next the place of the item that
   next(PERIODS) returns; an applet "crashed" is an app ended by an exception
   no handler caught *)

PERIODS ==
    << <<"Week", 7>>, <<"BiWeek", 14>>, <<"Month", 30>>, <<"Quarter", 90>>,
       <<"Year", 365>> >>

\* Reporting.replot, dt.datetime.today() returning t: what
\* TimeCard(code).general_report(t - delta, t) returns or raises
replot(code, days, t) ==
    LET card == get_code(IntArg(code))
    IN  IF card.exc # "" THEN card
        ELSE general_report(card.code, t - days * TicksPerDay, t)

\* the applet after replot: only ThymedError is caught (line 305)
AfterReplot(ret) == IF ret.exc \in {"", "ThymedError"} THEN "report" ELSE "crashed"

\* action_launch_report: a new Reporting with a new Statblock is mounted, the
\* table filled from the registry; PERIODS goes on from where it was unless
\* the app was started again
LaunchReport ==
    /\ Exists(ledger) \/ ~Parses(registry) \/ DOMAIN registry.doc = {}
    /\ tui' = [applet |-> "report",
               rows |-> {int(k) : k \in DOMAIN load_codes},
               period |-> "Week", days |-> 7,
               delta |-> 35, code |-> 0,
               next |-> IF tui.applet = "crashed" THEN 1 ELSE tui.next]
    /\ last' = Op("launch_report", "", "", FALSE, FALSE, FALSE)
    /\ UNCHANGED <<registry, ledger, objs, now, punches, born, saved, inflight, ran>>

\* on_data_table_row_selected on the row of id, then replot
SelectRow(id, t) ==
    /\ tui.applet = "report"
    /\ id \in tui.rows
    /\ t >= now
    /\ now' = t
    /\ tui' = [tui EXCEPT !.code = id,
                          !.applet = AfterReplot(replot(id, tui.delta, t))]
    /\ last' = OpR("select_row", "", Str(id), HasEntry(registry, id), FALSE,
                   Arg("int", id, "", t - tui.delta * TicksPerDay, t),
                   replot(id, tui.delta, t))
    /\ UNCHANGED <<registry, ledger, objs, punches, born, saved, inflight, ran>>

\* cycle_period: the Period button, then replot
CyclePeriod(t) ==
    /\ tui.applet = "report"
    /\ t >= now
    /\ now' = t
    /\ LET item == PERIODS[tui.next]
           ret == replot(tui.code, item[2], t)
       IN  /\ tui' = [tui EXCEPT !.period = item[1], !.days = item[2],
                                 !.delta = item[2],
                                 !.next = (tui.next % Len(PERIODS)) + 1,
                                 !.applet = AfterReplot(ret)]
           /\ last' = OpR("cycle_period", "", "", FALSE, FALSE,
                          Arg("int", tui.code, "", t - item[2] * TicksPerDay, t), ret)
    /\ UNCHANGED <<registry, ledger, objs, punches, born, saved, inflight, ran>>

\* codes created and punched, and the Reporting applet used
NextTui ==
    \/ \E i \in Ids : CreateCommand("One", "Tester 1", i)
    \/ \E i \in Ids, t \in Instants : PunchCommand(i, t)
    \/ LaunchReport
    \/ \E i \in Ids, t \in Instants : SelectRow(i, t)
    \/ \E t \in Instants : CyclePeriod(t)

SpecTui == Init /\ [][NextTui]_vars

\* The ledger file damaged or removed from outside the program: a write cut
\* short leaves text that is not JSON, a removed file leaves no file
Corrupt ==
    /\ UNCHANGED <<inflight, ran, tui>>
    /\ ledger.kind \in {"empty", "map"}
    /\ ledger' = GarbageFile
    /\ saved' = NoDoc
    /\ last' = Op("corrupt", "", "", FALSE, FALSE, FALSE)
    /\ UNCHANGED <<registry, objs, now, punches, born>>

Unlink ==
    /\ UNCHANGED <<inflight, ran, tui>>
    /\ Exists(ledger)
    /\ ledger' = AbsentFile
    /\ saved' = NoDoc
    /\ last' = Op("unlink", "", "", FALSE, FALSE, FALSE)
    /\ UNCHANGED <<registry, objs, now, punches, born>>

\* ChargeCode objects and a ledger file that may be damaged or removed
NextFiles ==
    \/ \E r \in Refs, m \in Metas, i \in Ids : Construct(r, m[1], m[2], i, <<>>)
    \/ \E o \in Refs, t \in Instants : Punch(o, t)
    \/ \E o \in Refs : WriteJson(o)
    \/ Corrupt
    \/ Unlink

SpecFiles == Init /\ [][NextFiles]_vars

----------------------------------------------------------------------------
(* The claims *)

\* the step is operation op on reference o
Did(op, o) == last'.op = op /\ last'.o = o

Open(interval) == Len(interval) = 1
Closed(interval) == Len(interval) = 2

\* C1: on a ChargeCode constructed with no intervals, after the k-th punch()
\* (k >= 1) is_active is true for odd k and false for even k, and there are
\* ceil(k/2) intervals.
C1_PunchAlternates ==
    \A r \in DOMAIN objs :
        (born[r].empty /\ born[r].k >= 1) =>
            /\ is_active(objs[r].times) = (IF born[r].k % 2 = 1 THEN True ELSE False)
            /\ Len(objs[r].times) = (born[r].k + 1) \div 2

C1_Witness == \E r \in DOMAIN objs : born[r].empty /\ born[r].k = 3

\* C2: in every ChargeCode constructed with the default times (fresh or hydrated
\* from the ledger) and then punched any number of times, every interval but
\* the last is closed, and the last is open or closed.
C2_OnlyLastOpen ==
    \A r \in DOMAIN objs :
        \A n \in 1..Len(objs[r].times) :
            \/ Closed(objs[r].times[n])
            \/ n = Len(objs[r].times) /\ Open(objs[r].times[n])

\* hydrated from an open interval, closed by one punch and reopened by the next
C2_Witness ==
    \E r \in DOMAIN objs :
        /\ ~born[r].empty /\ born[r].k = 2
        /\ Len(objs[r].times) = 2 /\ is_active(objs[r].times) = True

\* C3: write_json of a code with id i on a ledger that parses as a mapping sets
\* the entry of i to exactly the code's intervals (replacing what was stored)
\* and leaves the entry of every other id as it was.
C3_WriteJsonReplaces ==
    [][\A o \in DOMAIN objs :
         (Did("write_json", o) /\ Parses(ledger)) =>
            LET key == Str(objs[o].id) IN
            /\ Parses(ledger')
            /\ DOMAIN ledger'.doc = (DOMAIN ledger.doc) \cup {key}
            /\ TimesFromJson(ledger'.doc[key]) = objs[o].times
            /\ \A k \in (DOMAIN ledger.doc) \ {key} : ledger'.doc[k] = ledger.doc[k]
      ]_vars

C3_Witness ==
    /\ last.op = "write_json" /\ last.had /\ ~last.again
    /\ born[last.o].k >= 2 /\ Len(objs[last.o].times) >= 1
    /\ Cardinality(DOMAIN ledger.doc) = 2

\* C4: write_class of a code whose id has a registry entry leaves the stored
\* name and description of that entry as they were, whatever the code carries.
C4_WriteClassKeeps ==
    [][\A o \in DOMAIN objs :
         (Did("write_class", o) /\ HasEntry(registry, objs[o].id)) =>
            LET key == Str(objs[o].id) IN
            /\ HasEntry(registry', objs[o].id)
            /\ registry'.doc[key].name = registry.doc[key].name
            /\ registry'.doc[key].description = registry.doc[key].description
      ]_vars

C4_Witness ==
    /\ last.op = "write_class" /\ last.had
    /\ registry.doc[Str(objs[last.o].id)].name # objs[last.o].name
    /\ registry.doc[Str(objs[last.o].id)].description # objs[last.o].description

\* C5: a ChargeCode constructed with id X after write_json persisted intervals
\* for X has the same sequence of intervals, each with the same start and end,
\* an open last interval still open.
C5_RoundTrip ==
    [][\A r \in Refs :
         (Did("construct", r) /\ objs'[r].id \in DOMAIN saved) =>
            objs'[r].times = saved[objs'[r].id]
      ]_vars

\* a closed interval from a whole second to a half second, then an open one
C5_Witness ==
    /\ last.op = "construct" /\ last.had
    /\ objs[last.o].id \in DOMAIN saved
    /\ objs[last.o].times = << <<0, ClockStep>>, <<ClockStep>> >>

\* C6: a second write_json on the same code, with nothing run in between,
\* leaves the whole ledger as the first left it.
C6_WriteJsonIdempotent ==
    [][\A o \in DOMAIN objs :
         (Did("write_json", o) /\ last'.again) => ledger' = ledger
      ]_vars

C6_Witness ==
    /\ last.op = "write_json" /\ last.again
    /\ Len(objs[last.o].times) >= 1
    /\ Cardinality(DOMAIN ledger.doc) = 2

\* C7: delete_charge(key), key having an entry in the registry and in the
\* ledger, removes that entry from both and leaves every other entry of both
\* unchanged in value.
C7_DeleteExactly ==
    [][(last'.op = "delete_charge" /\ Parses(registry) /\ Parses(ledger)
           /\ last'.key \in DOMAIN registry.doc /\ last'.key \in DOMAIN ledger.doc) =>
            /\ registry' = MapFile(Pop(registry.doc, last'.key))
            /\ ledger' = MapFile(Pop(ledger.doc, last'.key))
      ]_vars

C7_Witness ==
    /\ last.op = "delete_charge" /\ last.had /\ ~last.raised
    /\ Parses(registry) /\ Cardinality(DOMAIN registry.doc) = 1
    /\ Parses(ledger) /\ Cardinality(DOMAIN ledger.doc) = 1
    /\ \A k \in DOMAIN ledger.doc : Len(ledger.doc[k]) >= 1

\* C8: a ChargeCode constructed with id i while the ledger has an entry for i
\* has exactly the intervals of that entry, whatever times the constructor was
\* given.
C8_HydrationReplaces ==
    [][\A r \in Refs :
         (Did("construct", r) /\ HasEntry(ledger, objs'[r].id)) =>
            objs'[r].times = TimesFromJson(ledger.doc[Str(objs'[r].id)])
      ]_vars

\* C9: is_active is None exactly when there are no intervals, true exactly when
\* the last interval is open, false exactly when it is closed, and None is
\* neither true nor false.
C9_IsActiveTriState ==
    \A r \in DOMAIN objs :
        LET t == objs[r].times
            a == is_active(t)
        IN  /\ (a = None) <=> (Len(t) = 0)
            /\ (a = True) <=> (Len(t) > 0 /\ Open(t[Len(t)]))
            /\ (a = False) <=> (Len(t) > 0 /\ Closed(t[Len(t)]))
            /\ None \notin {True, False}

C9_Witness ==
    \E r1, r2 \in DOMAIN objs :
        /\ is_active(objs[r1].times) = None
        /\ is_active(objs[r2].times) = False

\* C10: punch() changes nothing but the times of the code it is called on: the
\* registry file, the ledger file and every other object stay as they were.
C10_PunchInMemoryOnly ==
    [][\A o \in DOMAIN objs :
         Did("punch", o) =>
            /\ registry' = registry
            /\ ledger' = ledger
            /\ \A r \in (DOMAIN objs) \ {o} : objs'[r] = objs[r]
            /\ [objs'[o] EXCEPT !.times = objs[o].times] = objs[o]
      ]_vars

\* a punch on a code whose ledger entry no longer matches it, beside another object
C10_Witness ==
    /\ last.op = "punch"
    /\ Parses(registry) /\ HasEntry(ledger, objs[last.o].id)
    /\ TimesFromJson(ledger.doc[Str(objs[last.o].id)]) # objs[last.o].times
    /\ DOMAIN objs = Refs

\* the document of the file has an entry under key
HasKey(file, key) == Parses(file) /\ key \in DOMAIN file.doc

\* C14: write_class for an id with no registry entry (the registry file empty
\* or a mapping without it) adds an entry under that id holding the code's
\* name, description and id and no intervals, and leaves every other entry as
\* it was.
C14_WriteClassAdds ==
    [][\A o \in DOMAIN objs :
         (Did("write_class", o) /\ ~HasEntry(registry, objs[o].id)) =>
            LET key == Str(objs[o].id)
                old == IF Parses(registry) THEN registry.doc ELSE NoDoc
            IN  /\ Parses(registry')
                /\ DOMAIN registry'.doc = (DOMAIN old) \cup {key}
                /\ registry'.doc[key] =
                      [name |-> objs[o].name, description |-> objs[o].description,
                       id |-> objs[o].id, type |-> "ChargeCode"]
                /\ "times" \notin DOMAIN registry'.doc[key]
                /\ \A k \in DOMAIN old : registry'.doc[k] = old[k]
      ]_vars

C14_Witness ==
    /\ last.op = "write_class" /\ ~last.had
    /\ Cardinality(DOMAIN registry.doc) = 2
    /\ Len(objs[last.o].times) >= 1

\* C15: constructing a ChargeCode while the ledger file is empty or is not
\* JSON does not raise and gives a code with no intervals, is_active None; so
\* does constructing one while the ledger parses and has no entry for its id.
C15_ConstructTolerates ==
    [][(last'.op = "construct" /\ Exists(ledger)) =>
          /\ ~last'.raised
          /\ last'.o \in DOMAIN objs'
          /\ ~HasEntry(ledger, objs'[last'.o].id) =>
                /\ objs'[last'.o].times = <<>>
                /\ is_active(objs'[last'.o].times) = None
      ]_vars

C15_Witness ==
    /\ last.op = "construct" /\ ~last.raised /\ last.ret.was = "garbage"
    /\ objs[last.o].times = <<>>

\* C16: write_json on a ledger file that is empty or is not JSON does not
\* raise, and leaves a ledger with exactly one entry, the written code's.
C16_WriteJsonOverUnparsed ==
    [][\A o \in DOMAIN objs :
         (Did("write_json", o) /\ Exists(ledger) /\ ~Parses(ledger)) =>
            /\ ~last'.raised
            /\ Parses(ledger')
            /\ DOMAIN ledger'.doc = {Str(objs[o].id)}
            /\ TimesFromJson(ledger'.doc[Str(objs[o].id)]) = objs[o].times
      ]_vars

C16_Witness ==
    /\ last.op = "write_json" /\ ~last.raised /\ last.ret.was = "garbage"
    /\ Len(objs[last.o].times) >= 1
    /\ \E r \in DOMAIN objs : objs[r].id # objs[last.o].id /\ Len(objs[r].times) >= 1

\* C17: write_json on a ledger path with no file does not raise and creates a
\* ledger with exactly the written code's entry.
C17_WriteJsonCreates ==
    [][\A o \in DOMAIN objs :
         (Did("write_json", o) /\ ~Exists(ledger)) =>
            /\ ~last'.raised
            /\ Parses(ledger')
            /\ DOMAIN ledger'.doc = {Str(objs[o].id)}
      ]_vars

\* C18: delete_charge(key) raises when key has no entry in the registry or no
\* entry in the ledger.
C18_DeleteMissingRaises ==
    [][(last'.op = "delete_charge"
           /\ (~HasKey(registry, last'.key) \/ ~HasKey(ledger, last'.key))) =>
          last'.raised
      ]_vars

\* registered, never written to the ledger
C18_Witness ==
    /\ last.op = "delete_charge" /\ last.had /\ last.raised
    /\ ~HasKey(ledger, last.key)
    /\ \E r \in DOMAIN objs : Str(objs[r].id) = last.key

\* the intervals the ledger holds for id, none when it has no entry
Stored(id) ==
    IF HasEntry(ledger, id) THEN TimesFromJson(ledger.doc[Str(id)]) ELSE <<>>

\* C11: get_code(i) with an int i that has no entry in the registry, the empty
\* registry included, returns None without raising and changes neither the
\* registry nor the ledger; constructing a TimeCard for such an id does not
\* raise either.
C11_GetCodeNotFound ==
    [][(last'.op \in {"get_code", "TimeCard"} /\ last'.arg.type = "int"
          /\ ~HasKey(registry, Str(last'.arg.int)))
       => (/\ ~last'.raised
           /\ last'.ret.exc = ""
           /\ last'.ret.code = <<>>
           /\ registry' = registry
           /\ ledger' = ledger)]_vars

\* get_code(i) found nothing for i in a registry that holds another id
C11_Witness ==
    /\ last.op = "get_code"
    /\ last.arg.type = "int"
    /\ ~HasKey(registry, Str(last.arg.int))
    /\ Parses(registry) /\ DOMAIN registry.doc # {}
    /\ last.ret.code = <<>>
    /\ ~last.raised

\* C12: get_code with an id that is not an int, a string of digits for one,
\* is rejected with an error before the registry or the ledger is opened; no
\* store is read or changed.
C12_GetCodeRejectsNonInt ==
    [][(last'.op = "get_code" /\ last'.arg.type # "int")
       => (/\ last'.raised
           /\ last'.ret.exc = "AssertionError"
           /\ ~last'.ret.opened
           /\ last'.ret.code = <<>>
           /\ registry' = registry
           /\ ledger' = ledger)]_vars

\* get_code was refused the string key of an entry the registry holds
C12_Witness ==
    /\ last.op = "get_code"
    /\ last.arg.type = "str"
    /\ HasKey(registry, last.arg.str)
    /\ last.ret.exc = "AssertionError"

\* C13: get_code(i) for a registered i returns a ChargeCode whose name,
\* description and id are those of the registry entry and whose intervals
\* are the ledger's current entry for i, none when the ledger has no entry.
C13_GetCodeFound ==
    [][(last'.op = "get_code" /\ last'.arg.type = "int"
          /\ HasKey(registry, Str(last'.arg.int)))
       => (/\ ~last'.raised
           /\ Len(last'.ret.code) = 1
           /\ last'.ret.code[1].name = registry.doc[Str(last'.arg.int)].name
           /\ last'.ret.code[1].description
                = registry.doc[Str(last'.arg.int)].description
           /\ last'.ret.code[1].id = registry.doc[Str(last'.arg.int)].id
           /\ last'.ret.code[1].times = Stored(last'.arg.int))]_vars

\* get_code returned a registered code with the two intervals of the ledger
C13_Witness ==
    /\ last.op = "get_code"
    /\ Len(last.ret.code) = 1
    /\ Len(last.ret.code[1].times) = 2
    /\ last.ret.code[1].times = Stored(last.arg.int)

\* the intervals of times whose clock_in lies in [start, end]
Within(times, start, end) ==
    LET In(t) == start <= t[1] /\ t[1] <= end
    IN  SelectSeq(times, In)

\* the intervals of the rows of a report
Intervals(rows) ==
    [n \in 1..Len(rows) |-> <<rows[n].clock_in, rows[n].clock_out>>]

\* C19: general_report(start, end) on a code whose intervals are all closed
\* returns exactly the intervals with start <= clock_in <= end, each once, in
\* stored order.
C19_ReportFilters ==
    [][(last'.op = "general_report"
          /\ HasKey(registry, Str(last'.arg.int))
          /\ \A n \in 1..Len(Stored(last'.arg.int)) :
                 Closed(Stored(last'.arg.int)[n]))
       => (/\ ~last'.raised
           /\ Intervals(last'.ret.rows)
                = Within(Stored(last'.arg.int), last'.arg.start, last'.arg.end))]_vars

\* C20: general_report on a code whose last interval is open, closed
\* intervals before it or not, raises ThymedError.
C20_ReportOpenRaises ==
    [][(last'.op = "general_report"
          /\ HasKey(registry, Str(last'.arg.int))
          /\ Stored(last'.arg.int) # <<>>
          /\ Open(Stored(last'.arg.int)[Len(Stored(last'.arg.int))]))
       => last'.ret.exc = "ThymedError"]_vars

\* C21: general_report, and each of weekly_report, pay_period_report and
\* monthly_report, on a code whose only interval is open raises ThymedError.
C21_OnlyOpenRaises ==
    [][(last'.op \in {"general_report"} \cup Periods
          /\ HasKey(registry, Str(last'.arg.int))
          /\ Len(Stored(last'.arg.int)) = 1
          /\ Open(Stored(last'.arg.int)[1]))
       => last'.ret.exc = "ThymedError"]_vars

\* a monthly report refused on a code punched in twenty days before
C21_Witness ==
    /\ last.op = "monthly_report"
    /\ last.ret.exc = "ThymedError"
    /\ Stored(last.arg.int) = << <<0>> >>
    /\ last.arg.end = 20 * TicksPerDay

\* C22: for the same code and the same current time now, weekly_report,
\* pay_period_report and monthly_report return what general_report(now - 7
\* days, now), general_report(now - 14 days, now) and general_report(now - 28
\* days, now) return.
C22_PeriodsAreWindows ==
    [][(last'.op \in Periods /\ get_code(IntArg(last'.arg.int)).exc = "")
       => LET code == get_code(IntArg(last'.arg.int)).code
              days == CASE last'.op = "weekly_report" -> 7
                        [] last'.op = "pay_period_report" -> 14
                        [] last'.op = "monthly_report" -> 28
          IN  /\ last'.arg.end = now'
              /\ last'.ret = general_report(code, now' - days * TicksPerDay, now')]_vars

\* a weekly report without the interval that began more than seven days before
C22_Witness ==
    /\ last.op = "weekly_report"
    /\ ~last.raised
    /\ last.ret.rows = <<>>
    /\ Len(Stored(last.arg.int)) = 1
    /\ last.arg.end - Stored(last.arg.int)[1][1] > 7 * TicksPerDay
    /\ last.arg.end - Stored(last.arg.int)[1][1] <= 14 * TicksPerDay

\* C24: for every closed interval that general_report returns, hours is the
\* whole hours of clock_out - clock_in, a whole day counting as 24 hours, plus
\* minutes/60 rounded to one decimal, for a duration of any length (in tenths
\* of an hour here).
C24_HoursOfDuration ==
    [][(last'.op \in {"general_report"} \cup Periods /\ ~last'.raised)
       => \A n \in 1..Len(last'.ret.rows) :
             LET row == last'.ret.rows[n]
                 d == row.clock_out - row.clock_in
             IN  row.hours = (d \div TicksPerHour) * 10
                               + RoundTenths[((d \div TicksPerMinute) % 60) + 1]]_vars

\* C23: no lock or version check guards the ledger: when two processes each
\* run write_json for a different id, each a whole-document read and later a
\* whole-document overwrite, the overwrite of a process that read before the
\* other's entry was stored removes that entry (a lost update).
C23_LostUpdate ==
    [][\A o \in DOMAIN inflight :
         (last'.op = "write_json_write" /\ last'.o = o /\ Parses(ledger)) =>
            \A k \in (DOMAIN ledger.doc) \ (DOMAIN inflight[o]) :
                ~HasKey(ledger', k)
      ]_vars

\* both processes have written, each a different id with an interval, and the
\* ledger holds the entry of one of them only
C23_Witness ==
    /\ last.op = "write_json_write"
    /\ inflight = NoDoc
    /\ DOMAIN objs = Refs
    /\ objs["a"].id # objs["b"].id
    /\ DOMAIN saved = {objs["a"].id, objs["b"].id}
    /\ \A i \in DOMAIN saved : saved[i] # <<>>
    /\ Parses(ledger)
    /\ Cardinality(DOMAIN ledger.doc) = 1

\* C25: punch() on an active code replaces only the last interval, keeping
\* its start and adding the current time as its end; punch() on a code that
\* is not active appends one open interval starting at the current time;
\* every other interval keeps its place and its values.
C25_PunchFrame ==
    [][\A o \in DOMAIN objs :
         Did("punch", o) =>
            LET old == objs[o].times
                new == objs'[o].times
            IN  IF old # <<>> /\ Open(old[Len(old)])
                THEN /\ Len(new) = Len(old)
                     /\ new[Len(old)] = <<old[Len(old)][1], now'>>
                     /\ \A n \in 1..(Len(old) - 1) : new[n] = old[n]
                ELSE new = old \o << <<now'>> >>
      ]_vars

\* a fresh code punched at 0 and then half a second later
C25_Witness ==
    /\ last.op = "punch"
    /\ born[last.o].empty /\ born[last.o].k = 2
    /\ objs[last.o].times = << <<0, ClockStep>> >>

\* C26: a punch command looks the code up, punches it, then write_class, then
\* write_json; from a registry that has id i and a ledger with no entry for
\* i, after k punch commands for i the ledger entry of i has ceil(k/2)
\* intervals, the last open exactly when k is odd, the earlier ones closed.
C26_PunchCommands ==
    \A i \in Ids :
        ran[i] >= 1 =>
            /\ HasEntry(ledger, i)
            /\ LET entry == ledger.doc[Str(i)]
               IN  /\ Len(entry) = (ran[i] + 1) \div 2
                   /\ Open(entry[Len(entry)]) <=> (ran[i] % 2 = 1)
                   /\ \A n \in 1..(Len(entry) - 1) : Closed(entry[n])

\* three punch commands on one id
C26_Witness ==
    \E i \in Ids :
        /\ ran[i] = 3
        /\ last.op = "punch_command"
        /\ Len(ledger.doc[Str(i)]) = 2

\* after is before, or before with its open last interval closed, followed by
\* any more intervals
Keeps(before, after) ==
    /\ Len(before) <= Len(after)
    /\ \A n \in 1..Len(before) :
          \/ after[n] = before[n]
          \/ /\ n = Len(before)
             /\ Open(before[n]) /\ Closed(after[n])
             /\ after[n][1] = before[n][1]

\* C27: a ledger write never loses persisted punches: after each write_json
\* the entry stored before it for the id is a prefix of the entry stored after
\* it, except that a stored open last interval may have become closed with
\* the same start.
C27_WriteKeepsPunches ==
    [][\A o \in DOMAIN objs :
         (Did("write_json", o) /\ HasEntry(ledger, objs[o].id)) =>
            /\ HasEntry(ledger', objs[o].id)
            /\ Keeps(TimesFromJson(ledger.doc[Str(objs[o].id)]),
                     TimesFromJson(ledger'.doc[Str(objs[o].id)]))
      ]_vars

\* C28: when delete_charge(id) fails because id has no entry in the registry
\* or no entry in the ledger, the registry file and the ledger file hold the
\* same contents after the failure as before it.
C28_FailedDeleteKeepsFiles ==
    [][(last'.op = "delete_charge" /\ last'.raised
          /\ (~HasKey(registry, last'.key) \/ ~HasKey(ledger, last'.key)))
       => (registry' = registry /\ ledger' = ledger)]_vars

\* C29: from an empty registry and an empty ledger, after any sequence of
\* create, punch and delete commands, each run to its end or to its failure,
\* every id that has an entry in the ledger has an entry in the registry.
C29_LedgerWithinRegistry ==
    Parses(ledger) => \A k \in DOMAIN ledger.doc : HasKey(registry, k)

\* each closed interval ends at or after its start, and each interval starts
\* at or after the end of the one before it
Chronological(times) ==
    /\ \A n \in 1..Len(times) : Closed(times[n]) => times[n][2] >= times[n][1]
    /\ \A n \in 2..Len(times) :
          Closed(times[n - 1]) /\ times[n][1] >= times[n - 1][2]

\* C30: with a clock that never goes backwards, in every state reached from a
\* fresh code by punch() calls the intervals are in chronological order.
C30_Chronological ==
    \A r \in DOMAIN objs : born[r].empty => Chronological(objs[r].times)

\* a fresh code punched three times while the clock moved
C30_Witness ==
    \E r \in DOMAIN objs :
        /\ born[r].empty /\ born[r].k = 3
        /\ objs[r].times = << <<0, ClockStep>>, <<ClockStep>> >>

\* C31: the CLI punch command with no id punches the configured default code
\* whenever the registry has an entry for the default id: after the command
\* the ledger entry of that code has gained one open interval, or its open
\* last interval has been closed.
C31_DefaultPunched ==
    [][(last'.op = "punch_default" /\ HasKey(registry, last'.key))
       => (/\ ~last'.raised
           /\ HasKey(ledger', last'.key)
           /\ TimesFromJson(ledger'.doc[last'.key])
                = punch(Stored(last'.arg.int), now'))]_vars

\* C32: the CLI punch command with no id never raises when the default code
\* cannot be found: with an empty registry, or one that has no entry for the
\* default id, it reports the missing default, ends with status zero and leaves
\* the registry and the ledger unchanged.
C32_DefaultMissingQuiet ==
    [][(last'.op = "punch_default" /\ ~HasKey(registry, last'.key))
       => (/\ ~last'.raised
           /\ registry' = registry
           /\ ledger' = ledger)]_vars

\* C33: a punch command that names an id with no registry entry reports that
\* the code is not found, ends normally and leaves the registry and the
\* ledger unchanged: no entry is created for the id in either store.
C33_PunchNotFound ==
    [][(last'.op = "punch_command" /\ ~HasKey(registry, last'.key))
       => (/\ ~last'.raised
           /\ registry' = registry
           /\ ledger' = ledger
           /\ ~HasKey(registry', last'.key))]_vars

\* a punch command for an id the registry lacks while it holds another
C33_Witness ==
    /\ last.op = "punch_command"
    /\ ~last.had /\ ~last.raised
    /\ ~HasKey(registry, last.key)
    /\ ~HasKey(ledger, last.key)
    /\ Parses(registry) /\ DOMAIN registry.doc # {}
    /\ Parses(ledger) /\ DOMAIN ledger.doc # {}

\* C34: the two stores are written independently: write_class never changes
\* the ledger file and write_json never changes the registry file.
C34_StoresIndependent ==
    [][\A o \in DOMAIN objs :
         /\ Did("write_class", o) => ledger' = ledger
         /\ Did("write_json", o) => registry' = registry
      ]_vars

\* write_class of a code whose times are not those the ledger holds for it
C34_Witness ==
    /\ last.op = "write_class"
    /\ Parses(ledger)
    /\ objs[last.o].times # Stored(objs[last.o].id)
    /\ Parses(registry) /\ Cardinality(DOMAIN registry.doc) = 2

\* C35: general_report on a registered code that has no intervals returns a
\* result with no rows and does not raise.
C35_EmptyReport ==
    [][(last'.op = "general_report"
          /\ HasKey(registry, Str(last'.arg.int))
          /\ Stored(last'.arg.int) = <<>>)
       => (~last'.raised /\ last'.ret.rows = <<>>)]_vars

\* C36: in the Reporting applet the period length shown by the Statblock
\* equals the window (delta) that Reporting uses for the plot and the export,
\* in every state from mounting the applet through any number of Period
\* presses and relaunches.
C36_StatblockShowsDelta ==
    tui.applet = "report" => tui.days = tui.delta

====
